---- MODULE Spec2Model ----
(***************************************************************************)
(* Tower extraction pipeline of pointcloudhookup:                          *)
(* src/ui/ui/tower_extraction.py, extract_towers and _save_tower_las.      *)
(*                                                                         *)
(* Arithmetic.  Coordinates are exact rationals.  With n = len(raw_points) *)
(* every centroid-relative coordinate is stored as its numerator over n    *)
(* (n*p - sum), the percentile as its numerator over 4*n.  Angles are      *)
(* binary floating point numbers with a short significand, counted in      *)
(* ticks of a quarter degree (see RoundF).                                 *)
(*                                                                         *)
(* Library calls (laspy, DBSCAN, trimesh, pandas, the file system) are the *)
(* environment: each call returns one of a small set of results or raises. *)
(* A call is a function of its input, so its answer is remembered under    *)
(* the input's key (env) and a second run on the same file gets the same   *)
(* answer.                                                                 *)
(***************************************************************************)
EXTENDS Integers, Sequences, FiniteSets, TLC

\* ------------------------------------------------------------------ bounds
MaxPoints == 4
\* points per chunk (50000 in the source, scaled)
chunk_size == 2
\* minimum viable number of filtered points (1000 in the source, scaled)
MinViable == 2
\* max_points_for_processing of the variant in src/beifen (500000, scaled)
max_points_for_processing == 3

\* ------------------------------------------------- parameters (defaults)
min_height == 15
DefaultMinWidth == 8
max_width == 50
\* min_width as a caller may set it: the default, zero, a negative value
MinWidths == {DefaultMinWidth, 0, -1}
\* the parameter min_width of the call
VARIABLE min_width
\* aspect_ratio_threshold = 0.8 = ARNum / ARDen
ARNum == 8
ARDen == 10
\* height filter offsets 3.0 and 1.0
FilterOffset == 3
FallbackOffset == 1
\* duplicate_threshold: the default 30.0 and the value 10 of the callers' scenario
DefaultDupThreshold == 30
DupThresholds == {10, DefaultDupThreshold}

\* ----------------------------------------------------------- input sets
\* the k-th point of a file lies at x = k, y = 0; its z is one of ZValues
ZValues == {0, 12}
RECURSIVE SeqsUpTo(_, _)
SeqsUpTo(S, k) ==
  IF k = 0 THEN {<< >>}
  ELSE LET shorter == SeqsUpTo(S, k - 1)
       IN  shorter \cup {Append(s, x) : s \in {t \in shorter : Len(t) = k - 1}, x \in S}
Clouds == {[k \in 1..Len(zs) |-> <<k, 0, zs[k]>>] : zs \in SeqsUpTo(ZValues, MaxPoints)}

\* ------------------------------------------------------ sequence helpers
Range(s) == {s[k] : k \in DOMAIN s}
RECURSIVE SumZ(_, _)
SumZ(s, c) == IF s = << >> THEN 0 ELSE Head(s)[c] + SumZ(Tail(s), c)
RECURSIVE SelectMask(_, _)
SelectMask(s, mask) ==
  IF s = << >> THEN << >>
  ELSE IF Head(mask) THEN <<Head(s)>> \o SelectMask(Tail(s), Tail(mask))
       ELSE SelectMask(Tail(s), Tail(mask))
Min2(a, b) == IF a < b THEN a ELSE b
Max2(a, b) == IF a > b THEN a ELSE b

\* ------------------------------------------------- read and centre (62-64)
\* The variant src/beifen/tower_extraction.py (68-98) samples a file that is
\* not marked as downsampled and has more than max_points_for_processing
\* points: raw_points = points[np.random.choice(total, max, replace=False)].
\* The samples taken here keep the file's order.
Samples(cloud, downsampled) ==
  IF downsampled \/ Len(cloud) <= max_points_for_processing THEN {cloud}
  ELSE {SelectMask(cloud, [k \in 1..Len(cloud) |-> k \in S]) :
          S \in {T \in SUBSET (1..Len(cloud)) : Cardinality(T) = max_points_for_processing}}
\* centroid = np.mean(raw_points, axis=0), kept as the sum (numerator over n)
Centroid(raw) == <<SumZ(raw, 1), SumZ(raw, 2), SumZ(raw, 3)>>
\* points = raw_points - centroid, numerators over n
Centre(raw) ==
  LET n == Len(raw)
      c == Centroid(raw)
  IN  [k \in 1..n |-> <<n * raw[k][1] - c[1], n * raw[k][2] - c[2], n * raw[k][3] - c[3]>>]

\* ------------------------------------------------- height filter (82-89)
ZOf(pts) == [k \in 1..Len(pts) |-> pts[k][3]]
\* the k-th smallest element (k from 0) of a non-empty sequence
KthSmallest(z, k) ==
  CHOOSE v \in Range(z) :
    /\ Cardinality({j \in DOMAIN z : z[j] < v}) <= k
    /\ Cardinality({j \in DOMAIN z : z[j] <= v}) > k
\* np.percentile(z, 25), linear interpolation, as numerator over 4:
\* virtual index 0.25*(n-1) = lo + r/4
Percentile25x4(z) ==
  LET n  == Len(z)
      lo == (n - 1) \div 4
      r  == (n - 1) % 4
      hi == Min2(lo + 1, n - 1)
      a  == KthSmallest(z, lo)
      b  == KthSmallest(z, hi)
  IN  4 * a + r * (b - a)
\* (<= in place of <)
M_NeedsFallback(count) == count <= MinViable
\* if len(filtered_points) < 1000                                 (line 87)
NeedsFallback(count) == count < MinViable
\* (the comparison >= in place of >)
M_AboveMask(z, base4, off, n) == [k \in 1..Len(z) |-> 4 * z[k] >= base4 + 4 * n * off]
\* the mask z_values > (base_height + off); n is the common denominator
AboveMask(z, base4, off, n) == [k \in 1..Len(z) |-> 4 * z[k] > base4 + 4 * n * off]

\* ---------------------------------------------------- chunking (96-98)
\* chunks = [filtered_points[i:i + chunk_size] for i in range(0, len, chunk_size)]
\* (one chunk too many when n is a multiple of chunk_size, 0 included)
M_NumChunks(n) == n \div chunk_size + 1
NumChunks(n) == (n + chunk_size - 1) \div chunk_size
\* (range(0, len, chunk_size + 1): a point is skipped between chunks)
M_ChunkLo(k) == k * (chunk_size + 1) + 1
ChunkLo(k) == k * chunk_size + 1
ChunkHi(k, n) == Min2((k + 1) * chunk_size, n)
Chunk(fp, k) == SubSeq(fp, ChunkLo(k), ChunkHi(k, Len(fp)))

\* ------------------------------------- DBSCAN(...).fit(chunk).labels_
\* sklearn marks noise -1 and numbers the clusters of a chunk 0..m-1 in the
\* order of their first core samples: cluster c has a member (its seed)
\* behind the seed of cluster c-1
Noise == -1
IsLabelling(l) ==
  LET used == Range(l) \ {Noise}
  IN  /\ used = 0..(Cardinality(used) - 1)
      /\ \E seed \in [used -> DOMAIN l] :
           /\ \A c \in used : l[seed[c]] = c
           /\ \A c, d \in used : c < d => seed[c] < seed[d]
Labellings(len) == {l \in [1..len -> Noise..(len - 1)] : IsLabelling(l)}

\* (np.zeros in place of np.full(..., -1))
M_InitialLabels(n) == [k \in 1..n |-> 0]
\* all_labels = np.full(len(filtered_points), -1)                  (line 98)
InitialLabels(n) == [k \in 1..n |-> Noise]
\* (chunk_labels += current_label, the noise sentinel included)
M_OffsetLabels(chunk_labels, cur) == [k \in DOMAIN chunk_labels |-> chunk_labels[k] + cur]
\* chunk_labels[chunk_labels != -1] += current_label            (line 114)
OffsetLabels(chunk_labels, cur) ==
  [k \in DOMAIN chunk_labels |->
     IF chunk_labels[k] # Noise THEN chunk_labels[k] + cur ELSE chunk_labels[k]]
\* all_labels[i * chunk_size:(i + 1) * chunk_size] = chunk_labels (line 115)
StoreLabels(all, k, chunk_labels) ==
  [j \in DOMAIN all |->
     IF j >= ChunkLo(k) /\ j <= ChunkHi(k, Len(all)) THEN chunk_labels[j - ChunkLo(k) + 1]
     ELSE all[j]]
MaxOf(S) == CHOOSE m \in S : \A x \in S : x <= m
\* (np.max(chunk_labels) without the + 1)
M_NextLabel(chunk_labels, cur) ==
  IF \E k \in DOMAIN chunk_labels : chunk_labels[k] # Noise
  THEN MaxOf(Range(chunk_labels))
  ELSE cur
\* (the offset is added once more: current_label + np.max(chunk_labels) + 1)
M_NextLabelTwice(chunk_labels, cur) ==
  IF \E k \in DOMAIN chunk_labels : chunk_labels[k] # Noise
  THEN cur + MaxOf(Range(chunk_labels)) + 1
  ELSE cur
\* current_label = np.max(chunk_labels) + 1 if np.any(chunk_labels != -1)
\*                 else current_label                            (line 116)
NextLabel(chunk_labels, cur) ==
  IF \E k \in DOMAIN chunk_labels : chunk_labels[k] # Noise
  THEN MaxOf(Range(chunk_labels)) + 1
  ELSE cur

\* ----------------------------------------- set(all_labels) - {-1} (125)
\* The CPython set: an open-addressing table; iteration is in slot order.
Unused == -2
Dummy == -3
PySet_MINSIZE == 8
LINEAR_PROBES == 9
PERTURB_SHIFT == 5
HashBits == 64
\* hash of an int: itself, except hash(-1) = -2
Hash(key) == IF key = -1 THEN -2 ELSE key
EmptySet == [mask |-> PySet_MINSIZE - 1, fill |-> 0, used |-> 0,
             table |-> [s \in 0..(PySet_MINSIZE - 1) |-> Unused]]
\* perturb = (size_t)hash.  A negative hash is a run of HashBits one-bits
\* (its lowest bit is shifted out before the first use); [ones, val] stands
\* for 2^ones - 1 when ones > 0 and for val otherwise.
Perturb(hash) == IF hash < 0 THEN [ones |-> HashBits, val |-> 0] ELSE [ones |-> 0, val |-> hash]
\* perturb >>= PERTURB_SHIFT
ShiftPerturb(p) ==
  [ones |-> IF p.ones > PERTURB_SHIFT THEN p.ones - PERTURB_SHIFT ELSE 0,
   val  |-> p.val \div (2 ^ PERTURB_SHIFT)]
\* perturb & mask
LowBits(p, mask) ==
  IF p.ones = 0 THEN p.val % (mask + 1)
  ELSE IF p.ones >= 20 THEN mask
  ELSE (2 ^ p.ones - 1) % (mask + 1)
\* the slot of key, or the first unused slot of its probe sequence
RECURSIVE Probe(_, _, _, _, _)
Probe(table, mask, key, i, perturb) ==
  LET probes == IF i + LINEAR_PROBES <= mask THEN LINEAR_PROBES ELSE 0
      hits   == {j \in i..(i + probes) : table[j] = Unused \/ table[j] = key}
  IN  IF hits # {} THEN CHOOSE j \in hits : \A h \in hits : j <= h
      ELSE LET p == ShiftPerturb(perturb)
           IN  Probe(table, mask, key, (i * 5 + 1 + LowBits(p, mask)) % (mask + 1), p)
Slot(table, mask, key) == Probe(table, mask, key, Hash(key) % (mask + 1), Perturb(Hash(key)))
RECURSIVE TableSize(_, _)
TableSize(size, minused) == IF size > minused THEN size ELSE TableSize(2 * size, minused)
\* set_insert_clean of the active entries of old, slots 0..k, into table
RECURSIVE Reinsert(_, _, _, _)
Reinsert(old, k, table, mask) ==
  IF k < 0 THEN table
  ELSE LET t == Reinsert(old, k - 1, table, mask)
       IN  IF old[k] = Unused \/ old[k] = Dummy THEN t
           ELSE [t EXCEPT ![Slot(t, mask, old[k])] = old[k]]
\* set_table_resize
Resize(so, minused) ==
  LET size == TableSize(PySet_MINSIZE, minused)
  IN  [mask |-> size - 1, fill |-> so.used, used |-> so.used,
       table |-> Reinsert(so.table, so.mask, [s \in 0..(size - 1) |-> Unused], size - 1)]
\* set_add_entry
SetAdd(so, key) ==
  LET s == Slot(so.table, so.mask, key)
  IN  IF so.table[s] = key THEN so
      ELSE LET added == [so EXCEPT !.table[s] = key, !.fill = @ + 1, !.used = @ + 1]
           IN  IF added.fill * 5 < added.mask * 3 THEN added
               ELSE Resize(added, added.used * 4)
RECURSIVE SetFromSeq(_)
SetFromSeq(s) ==
  IF s = << >> THEN EmptySet
  ELSE SetAdd(SetFromSeq(SubSeq(s, 1, Len(s) - 1)), s[Len(s)])
\* the keys in slot order 0..k
RECURSIVE SlotOrder(_, _)
SlotOrder(table, k) ==
  IF k < 0 THEN << >>
  ELSE SlotOrder(table, k - 1) \o
       (IF table[k] = Unused \/ table[k] = Dummy THEN << >> ELSE <<table[k]>>)
RECURSIVE Reverse(_)
Reverse(s) == IF s = << >> THEN << >> ELSE Append(Reverse(Tail(s)), Head(s))
\* (the table is walked from its last slot down)
M_SetIter(so) == Reverse(SlotOrder(so.table, so.mask))
SetIter(so) == SlotOrder(so.table, so.mask)
\* set_copy, then discard key                     (set_copy_and_difference)
CopyAndDiscard(so, key) ==
  LET fresh == IF so.used * 5 >= EmptySet.mask * 3 THEN Resize(EmptySet, so.used * 2)
               ELSE EmptySet
      copy  == IF fresh.mask = so.mask /\ so.fill = so.used
               THEN so
               ELSE [fresh EXCEPT !.fill = so.used, !.used = so.used,
                                  !.table = Reinsert(so.table, so.mask, fresh.table, fresh.mask)]
      s     == Slot(copy.table, copy.mask, key)
  IN  IF copy.table[s] = key
      THEN [copy EXCEPT !.table[s] = Dummy, !.used = @ - 1]
      ELSE copy
\* (set(all_labels) without the difference)
M_SetMinus(so, key) == so
\* so - {key}: set_difference with a one-element right operand
SetMinus(so, key) ==
  IF so.used \div 4 > 1 THEN CopyAndDiscard(so, key)
  ELSE SetFromSeq(SelectSeq(SetIter(so), LAMBDA k : k # key))
\* unique_labels = set(all_labels) - {-1}, as the order the for loop sees
UniqueLabels(all) == SetIter(SetMinus(SetFromSeq(all), Noise))

\* ------------------------------------ OBB of a cluster (137-139, 151, 165)
\* cluster_points = filtered_points[all_labels == label]       (133-134)
ClusterPoints(fp, all, label) == SelectMask(fp, [k \in DOMAIN all |-> all[k] = label])
\* trimesh returns extents, the centre obb.transform[:3, 3] (relative to the
\* centroid) and the rotation obb.transform[:3, :3], here as its three
\* columns in units of 1/AxisUnit.
AxisUnit == 256
GoodExtents == <<10, 6, 20>>
Identity == << <<AxisUnit, 0, 0>>, <<0, AxisUnit, 0>>, <<0, 0, AxisUnit>> >>
GoodOBBs ==
  { [ok |-> TRUE, extents |-> GoodExtents, center |-> <<0, 0, 0>>, rotation |-> Identity],
    [ok |-> TRUE, extents |-> GoodExtents, center |-> <<3, 4, 0>>,
     rotation |-> << <<-1, AxisUnit, 0>>, <<-AxisUnit, -1, 0>>, <<0, 0, AxisUnit>> >>],
    \* the first column is vertical
    [ok |-> TRUE, extents |-> GoodExtents, center |-> <<6, 8, 0>>,
     rotation |-> << <<0, 0, AxisUnit>>, <<0, AxisUnit, 0>>, <<-AxisUnit, 0, 0>> >>],
    [ok |-> TRUE, extents |-> GoodExtents, center |-> <<18, 24, 0>>,
     rotation |-> << <<0, -AxisUnit, 0>>, <<AxisUnit, 0, 0>>, <<0, 0, AxisUnit>> >>] }
\* height, width or aspect ratio exactly on its threshold
BoundaryExtents == { <<10, 6, 15>>, <<8, 8, 20>>, <<50, 10, 45>>, <<25, 10, 20>> }
BoundaryOBBs ==
  { [ok |-> TRUE, extents |-> e, center |-> <<0, 0, 0>>, rotation |-> Identity] : e \in BoundaryExtents }
\* trimesh.PointCloud(...) raises, or bounding_box_oriented raises
RaisePointCloud == [ok |-> FALSE, at |-> "PointCloud"]
RaiseOBB == [ok |-> FALSE, at |-> "bounding_box_oriented"]
\* both horizontal extents zero
ZeroWidthOBB == [ok |-> TRUE, extents |-> <<0, 0, 20>>, center |-> <<0, 0, 0>>, rotation |-> Identity]
OBBResults == GoodOBBs \cup BoundaryOBBs \cup {ZeroWidthOBB, RaisePointCloud, RaiseOBB}

\* ------------------------------------------------ classification (142-147)
Height(extents) == extents[3]
Width(extents) == Max2(extents[1], extents[2])
\* aspect_ratio > aspect_ratio_threshold, aspect_ratio = height / width in
\* numpy floats: x / 0 is inf for x > 0 and nan for x = 0, no exception
AspectAbove(height, width) ==
  IF width = 0 THEN height > 0 ELSE height * ARDen > ARNum * width
\* (height >= min_height in place of >)
M_ShapeAccepted(height, width) ==
  /\ height >= min_height
  /\ min_width < width
  /\ width < max_width
  /\ AspectAbove(height, width)
ShapeAccepted(height, width) ==
  /\ height > min_height
  /\ min_width < width
  /\ width < max_width
  /\ AspectAbove(height, width)

\* ------------------------------------------- duplicate check (151-162)
\* (the centroid is not added back)
M_WorldCenter(center, cen, n) == <<n * center[1], n * center[2], n * center[3]>>
\* obb_center = obb.transform[:3, 3] + centroid, numerators over n
WorldCenter(center, cen, n) == <<n * center[1] + cen[1], n * center[2] + cen[2], n * center[3] + cen[3]>>
SqDist(a, b) == (a[1] - b[1]) * (a[1] - b[1]) + (a[2] - b[2]) * (a[2] - b[2]) + (a[3] - b[3]) * (a[3] - b[3])
\* np.linalg.norm(obb_center - existing) < duplicate_threshold
Closer(a, b, thr, n) == SqDist(a, b) < (n * thr) * (n * thr)
\* (only the tower accepted last is compared)
M_IsDuplicate(c, centers, thr, n) ==
  centers # << >> /\ Closer(c, centers[Len(centers)], thr, n)
IsDuplicate(c, centers, thr, n) == \E k \in DOMAIN centers : Closer(c, centers[k], thr, n)
\* (the center is remembered before the shape test and the duplicate check)
M_NextCenters(centers, c, emit, measured) == IF measured THEN Append(centers, c) ELSE centers
\* tower_centers.append(obb_center), reached by emitted towers only (line 190)
NextCenters(centers, c, emit, measured) == IF emit THEN Append(centers, c) ELSE centers
\* (the new tower takes the place of the one accepted last)
M_AcceptTower(towers, info) ==
  IF towers = << >> THEN <<info>> ELSE [towers EXCEPT ![Len(towers)] = info]
\* tower_obbs.append(tower_info)                                  (line 189)
AcceptTower(towers, info) == Append(towers, info)

\* ------------------------------------------------ north angle (165-177)
\* Floats: angles are counted in ticks, TicksPerDegree to the degree, and a
\* float has SigBits significant bits (53 in the source's float64): every
\* integer below 2^SigBits ticks is a float, above it every second, then
\* every fourth.  RoundF rounds to the nearest float, ties to even.
TicksPerDegree == 4
SigBits == 9
Deg(d) == d * TicksPerDegree
Abs(v) == IF v < 0 THEN -v ELSE v
RECURSIVE Spacing(_)
Spacing(a) == IF a < 2 ^ SigBits THEN 1 ELSE 2 * Spacing(a \div 2)
RoundTo(a, q) ==
  LET lo == (a \div q) * q
      r  == a - lo
  IN  IF 2 * r < q THEN lo
      ELSE IF 2 * r > q THEN lo + q
      ELSE IF (lo \div q) % 2 = 0 THEN lo ELSE lo + q
RoundF(v) == IF v < 0 THEN -RoundTo(-v, Spacing(-v)) ELSE RoundTo(v, Spacing(v))
\* the float operator %: fmod, then + divisor when the signs differ
FloatMod(a, b) ==
  LET fm == IF a < 0 THEN -((-a) % b) ELSE a % b
  IN  IF fm # 0 /\ fm < 0 THEN RoundF(fm + b) ELSE fm
\* np.linalg.norm of the horizontal direction, to the nearest unit
Norm(h) ==
  LET v == h[1] * h[1] + h[2] * h[2]
  IN  CHOOSE r \in 0..(Abs(h[1]) + Abs(h[2])) :
        /\ 4 * v < (2 * r + 1) * (2 * r + 1)
        /\ r = 0 \/ (2 * r - 1) * (2 * r - 1) <= 4 * v
RoundDiv(a, b) == IF a < 0 THEN -((2 * (-a) + b) \div (2 * b)) ELSE (2 * a + b) \div (2 * b)
\* lines 167-171
HorizontalDirection(x_axis) ==
  LET h == <<x_axis[1], x_axis[2]>>
      n == Norm(h)
  IN  IF n * 1000000 > AxisUnit
      THEN <<RoundDiv(h[1] * AxisUnit, n), RoundDiv(h[2] * AxisUnit, n)>>
      ELSE <<AxisUnit, 0>>
\* np.degrees(np.arctan2(y, x)) of the directions the OBBs have, in ticks
\* (atan2(256, -1) = 90.22 degrees, the float next above 90)
ArcTan2Deg(y, x) ==
  CASE y = 0 /\ x > 0 -> 0
    [] y > 0 /\ x = 0 -> Deg(90)
    [] y > 0 /\ x = -1 -> Deg(90) + 1
    [] y = 0 /\ x < 0 -> Deg(180)
    [] y < 0 /\ x = 0 -> -Deg(90)
\* x_axis = rotation_matrix[:, 0]                                 (line 166)
PrincipalAxis(rotation) == rotation[1]
\* lines 173-177
NorthAngle(x_axis) ==
  LET d   == HorizontalDirection(x_axis)
      raw == ArcTan2Deg(d[2], d[1])
      pos == IF raw < 0 THEN RoundF(raw + Deg(360)) ELSE raw
  IN  FloatMod(RoundF(Deg(90) - pos), Deg(360))

\* ------------------------------------------------------------- state
VARIABLES
  pc,                  \* position in extract_towers
  duplicate_threshold, \* parameter
  is_downsampled_file, \* FALSE: the variant in src/beifen with skip_downsampling=False
                       \* on a file whose path does not mark it as downsampled
  raw_points, centroid, points,
  base_height,         \* np.percentile(z_values, 25), numerator over 4n
  offset_used,         \* the offset of the filter that produced filtered_points
  filtered_points,
  all_labels, current_label, i,
  bound,               \* the loop locals that are bound (del unbinds)
  unique_labels,       \* in iteration order
  label_idx,
  extents,             \* of the last cluster measured
  tower_centers, tower_obbs, tower_info_list,
  written,             \* calls of _save_tower_las: path and outcome
  log, progress_values,
  env,                 \* the answers the library calls have given
  run, first_result    \* a second run on the same input and its reference

inputVars == <<raw_points, centroid, points>>
filterVars == <<base_height, offset_used, filtered_points>>
clusterVars == <<all_labels, current_label, i>>
detectVars == <<unique_labels, label_idx, extents, tower_centers, tower_obbs, tower_info_list, written>>
runVars == <<run, first_result>>
paramVars == <<duplicate_threshold, min_width, is_downsampled_file>>
towerVars == <<pc, paramVars, inputVars, filterVars, clusterVars, bound, detectVars,
               log, progress_values, env, runVars>>

\* The detection loop of src/tset_tower/tt001.py (quality-based duplicates)
VARIABLES
  tt_pc,
  tt_clusters,         \* the clusters of unique_labels in loop order, as measured
  tt_label_idx,
  tt_tower_obbs, tt_tower_centers, tt_tower_info_list,
  tt_log
ttVars == <<tt_pc, tt_clusters, tt_label_idx, tt_tower_obbs, tt_tower_centers,
            tt_tower_info_list, tt_log>>

\* StandaloneTowerExtractor.remove_duplicates of src/test/008.py
VARIABLES
  rd_pc,
  rd_towers,           \* the argument
  rd_idx,              \* towers taken by the outer loop
  rd_unique_towers,
  rd_result
rdVars == <<rd_pc, rd_towers, rd_idx, rd_unique_towers, rd_result>>

\* TowerDetectionTool of src/GUI/pc_towers.py: the button and its threads
VARIABLES
  gui_pointcloud_path, \* "None" or "set"
  gui_threads,         \* the position of every thread started, in order of start
  gui_tower_geometries,\* the thread whose result the field holds, 0 for none
  gui_log
guiVars == <<gui_pointcloud_path, gui_threads, gui_tower_geometries, gui_log>>

sideVars == <<ttVars, rdVars, guiVars>>
vars == <<towerVars, sideVars>>

\* ------------------------------------------------------- environment
NoAnswers == [mkdir |-> << >>, read |-> << >>, percentile |-> << >>, dbscan |-> << >>,
              obb |-> << >>, save |-> << >>, excel |-> << >>]
\* the possible results of a call: the one already given for this input,
\* else any of Choices.  DBSCAN is keyed by the chunk, the OBB by the
\* cluster's points, the export by the tower's path.
Answer(memo, key, Choices) == IF key \in DOMAIN memo THEN {memo[key]} ELSE Choices
Remember(memo, key, r) == (key :> r) @@ memo

Entry(tag, arg) == [tag |-> tag, arg |-> arg]
Logged(tag) == \E k \in DOMAIN log : log[k].tag = tag

\* del name1, name2, ...: unbinds in order, UnboundLocalError at the first
\* name that is not bound
RECURSIVE Del(_, _)
Del(names, b) ==
  IF names = << >> THEN [ok |-> TRUE, bound |-> b]
  ELSE IF Head(names) \notin b THEN [ok |-> FALSE, bound |-> b]
  ELSE Del(Tail(names), b \ {Head(names)})

\* the variables of the other programs while extract_towers is looked at
TTIdle ==
  /\ tt_pc = "idle" /\ tt_clusters = << >> /\ tt_label_idx = 0
  /\ tt_tower_obbs = << >> /\ tt_tower_centers = << >> /\ tt_tower_info_list = << >>
  /\ tt_log = << >>
RDIdle ==
  /\ rd_pc = "idle" /\ rd_towers = << >> /\ rd_idx = 0
  /\ rd_unique_towers = << >> /\ rd_result = << >>
GUIIdle ==
  /\ gui_pointcloud_path = "None" /\ gui_threads = << >>
  /\ gui_tower_geometries = 0 /\ gui_log = << >>

\* lines 40-41, and the locals of the run before the first statement
Fresh ==
  /\ pc = "mkdir"
  /\ raw_points = << >> /\ centroid = <<0, 0, 0>> /\ points = << >>
  /\ base_height = 0 /\ offset_used = 0 /\ filtered_points = << >>
  /\ all_labels = << >> /\ current_label = 0 /\ i = 0
  /\ bound = {}
  /\ unique_labels = << >> /\ label_idx = 0 /\ extents = <<0, 0, 0>>
  /\ tower_centers = << >> /\ tower_obbs = << >> /\ tower_info_list = << >>
  /\ written = << >>
  /\ log = << >> /\ progress_values = << >>

Init ==
  /\ Fresh
  /\ TTIdle /\ RDIdle /\ GUIIdle
  /\ duplicate_threshold \in DupThresholds
  /\ min_width = DefaultMinWidth
  /\ is_downsampled_file \in BOOLEAN
  /\ env = NoAnswers
  /\ run = 1
  /\ first_result = [pc |-> "none", tower_obbs |-> << >>]

\* ------------------------------------------------------------ actions
\* progress(20 + int(50 * (i + 1) / len(chunks)))                  (line 117)
ChunkProgress(done, total) == 20 + (50 * done) \div total
\* (the share of the chunk loop in place of that of the detection loop)
M_ClusterProgress(done, total) == 75 + (50 * done) \div total
\* progress(75 + int(15 * (label_idx + 1) / len(unique_labels)))   (line 211)
ClusterProgress(done, total) == 75 + (15 * done) \div total
\* (the except clause of the read block without its return)
M_AfterRead(ok) == "filter"
\* lines 74-76: a failed read returns tower_obbs at once
AfterRead(ok) == IF ok THEN "filter" ELSE "returned"
\* original_points = cluster_points + centroid, numerators over n (line 205)
OriginalPoints(cluster_points, cen) ==
  [k \in DOMAIN cluster_points |->
     <<cluster_points[k][1] + cen[1], cluster_points[k][2] + cen[2], cluster_points[k][3] + cen[3]>>]
\* (every tower is written to one fixed file name)
M_OutputPath(label) == 0
\* output_path = output_dir / f"tower_{label}.las": the label names the file
OutputPath(label) == label
\* (the failure of a write is swallowed without a message)
M_SaveLog(path, saved) == IF saved THEN <<Entry("save_ok", path)>> ELSE << >>
\* _save_tower_las (243-262): every exception is caught and logged
SaveLog(path, saved) == <<Entry(IF saved THEN "save_ok" ELSE "save_fail", path)>>
\* lines 53-54: output_dir.mkdir(exist_ok=True), outside every try
MakeOutputDir ==
  /\ pc = "mkdir"
  /\ \E r \in Answer(env.mkdir, 0, {[ok |-> TRUE], [ok |-> FALSE]}) :
       /\ env' = [env EXCEPT !.mkdir = Remember(@, 0, r)]
       /\ pc' = IF r.ok THEN "read" ELSE "raised"
  /\ UNCHANGED <<sideVars, paramVars, inputVars, filterVars, clusterVars, bound, detectVars,
                 log, progress_values, runVars>>

\* lines 57-76
ReadFile ==
  /\ pc = "read"
  /\ \E r \in Answer(env.read, 0, {[ok |-> TRUE, points |-> c] : c \in Clouds} \cup {[ok |-> FALSE]}) :
       /\ env' = [env EXCEPT !.read = Remember(@, 0, r)]
       /\ progress_values' = Append(progress_values, 5)
       /\ IF r.ok
          THEN \E sample \in Samples(r.points, is_downsampled_file) :
                 /\ raw_points' = sample
                 /\ centroid' = Centroid(sample)
                 /\ points' = Centre(sample)
                 /\ log' = log \o <<Entry("read", 0), Entry("read_done", Len(sample))>>
                 /\ pc' = AfterRead(TRUE)
          ELSE /\ log' = log \o <<Entry("read", 0), Entry("read_fail", 0)>>
               /\ pc' = AfterRead(FALSE)
               /\ UNCHANGED inputVars
  /\ UNCHANGED <<sideVars, paramVars, filterVars, clusterVars, bound, detectVars, runVars>>

\* lines 79-102: the height filter, then the set-up of the chunk loop
HeightFilter ==
  /\ pc = "filter"
  /\ LET n      == Len(points)
         z      == ZOf(points)
         base   == Percentile25x4(z)
         first  == SelectMask(points, AboveMask(z, base, FilterOffset, n))
         second == SelectMask(points, AboveMask(z, base, FallbackOffset, n))
         few    == NeedsFallback(Len(first))
         kept   == IF few THEN second ELSE first
         setup(fp) ==
           /\ filtered_points' = fp
           /\ all_labels' = InitialLabels(Len(fp))
           /\ current_label' = 0
           /\ i' = 0
           /\ progress_values' = progress_values \o <<10, 20>>
           /\ pc' = IF NumChunks(Len(fp)) = 0 THEN "detect_setup" ELSE "cluster"
     IN  IF n = 0
         \* np.percentile of an empty array: nan, or IndexError (numpy version)
         THEN \E r \in Answer(env.percentile, 0, {[ok |-> TRUE], [ok |-> FALSE]}) :
                /\ env' = [env EXCEPT !.percentile = Remember(@, 0, r)]
                /\ IF r.ok
                   THEN /\ setup(<< >>)
                        /\ offset_used' = FallbackOffset
                        /\ log' = log \o <<Entry("filter", 0), Entry("filter_done", 0),
                                           Entry("fallback", 0), Entry("cluster_start", 0)>>
                        /\ UNCHANGED base_height
                   ELSE /\ log' = log \o <<Entry("filter", 0), Entry("filter_fail", 0)>>
                        /\ progress_values' = Append(progress_values, 10)
                        /\ pc' = "returned"
                        /\ UNCHANGED <<filterVars, clusterVars>>
         ELSE /\ base_height' = base
              /\ offset_used' = IF few THEN FallbackOffset ELSE FilterOffset
              /\ setup(kept)
              /\ log' = log \o <<Entry("filter", 0), Entry("filter_done", Len(first))>>
                            \o (IF few THEN <<Entry("fallback", 0)>> ELSE << >>)
                            \o <<Entry("cluster_start", 0)>>
              /\ UNCHANGED env
  /\ UNCHANGED <<sideVars, paramVars, inputVars, bound, detectVars, runVars>>

\* lines 104-122: one iteration of the chunk loop, its finally included
ClusterChunk ==
  /\ pc = "cluster"
  /\ LET chunk   == Chunk(filtered_points, i)
         nchunks == NumChunks(Len(filtered_points))
     IN  \E r \in Answer(env.dbscan, chunk,
                         {[ok |-> TRUE, labels |-> l] : l \in Labellings(Len(chunk))}
                           \cup {[ok |-> FALSE]}) :
           LET chunk_labels == OffsetLabels(r.labels, current_label)
               inTry == bound \cup {"chunk"}
                          \cup (IF r.ok THEN {"clustering", "chunk_labels"} ELSE {})
               d == Del(<<"chunk", "clustering", "chunk_labels">>, inTry)
           IN  /\ env' = [env EXCEPT !.dbscan = Remember(@, chunk, r)]
               /\ IF r.ok
                  THEN /\ all_labels' = StoreLabels(all_labels, i, chunk_labels)
                       /\ current_label' = NextLabel(chunk_labels, current_label)
                       /\ progress_values' =
                            Append(progress_values, ChunkProgress(i + 1, nchunks))
                       /\ log' = Append(log, Entry("chunk", i + 1))
                  ELSE /\ log' = log \o <<Entry("chunk", i + 1), Entry("chunk_fail", i)>>
                       /\ UNCHANGED <<all_labels, current_label, progress_values>>
               /\ bound' = d.bound
               /\ IF d.ok
                  THEN /\ i' = i + 1
                       /\ pc' = IF i + 1 = nchunks THEN "detect_setup" ELSE "cluster"
                  ELSE /\ i' = i
                       /\ pc' = "raised"
  /\ UNCHANGED <<sideVars, paramVars, inputVars, filterVars, detectVars, runVars>>

\* lines 125-129
StartDetection ==
  /\ pc = "detect_setup"
  /\ unique_labels' = UniqueLabels(all_labels)
  /\ tower_centers' = << >>
  /\ label_idx' = 0
  /\ log' = Append(log, Entry("detect_start", Len(unique_labels')))
  /\ progress_values' = Append(progress_values, 75)
  /\ pc' = IF unique_labels' = << >> THEN "excel" ELSE "detect"
  /\ UNCHANGED <<sideVars, paramVars, inputVars, filterVars, clusterVars, bound, extents,
                 tower_obbs, tower_info_list, written, env, runVars>>

\* lines 180-202: the record of an accepted tower and its table row
TowerInfo(r, obb_center, cluster_points) ==
  [center |-> obb_center, rotation |-> r.rotation, extent |-> r.extents,
   height |-> Height(r.extents), width |-> Width(r.extents),
   north_angle |-> NorthAngle(PrincipalAxis(r.rotation)), points |-> cluster_points]
InfoRow(label, r, obb_center) ==
  [ID |-> label, center |-> obb_center, height |-> Height(r.extents),
   north_angle |-> NorthAngle(PrincipalAxis(r.rotation)), width |-> Width(r.extents),
   aspect_ratio |-> <<Height(r.extents), Width(r.extents)>>]

\* lines 131-218: one iteration of the detection loop, its finally included
DetectCluster ==
  /\ pc = "detect"
  /\ LET label == unique_labels[label_idx + 1]
         cluster_points == ClusterPoints(filtered_points, all_labels, label)
     IN  \E r \in Answer(env.obb, cluster_points, OBBResults) :
           LET accepted   == r.ok /\ ShapeAccepted(Height(r.extents), Width(r.extents))
               obb_center == WorldCenter(r.center, centroid, Len(raw_points))
               duplicate  == accepted
                               /\ IsDuplicate(obb_center, tower_centers, duplicate_threshold,
                                              Len(raw_points))
               emit       == accepted /\ ~duplicate
               inTry      == bound \cup {"cluster_points"}
                               \cup (IF r.ok THEN {"cluster_pc", "obb"}
                                     ELSE IF r = RaiseOBB THEN {"cluster_pc"} ELSE {})
               d          == Del(<<"cluster_points", "cluster_pc", "obb">>, inTry)
               output_path == OutputPath(label)
           IN  \E saved \in IF emit THEN Answer(env.save, output_path, {TRUE, FALSE}) ELSE {TRUE} :
                 /\ env' = [env EXCEPT !.obb = Remember(@, cluster_points, r),
                                       !.save = IF emit THEN Remember(@, output_path, saved) ELSE @]
                 /\ extents' = IF r.ok THEN r.extents ELSE extents
                 /\ IF emit
                    THEN /\ tower_obbs' = AcceptTower(tower_obbs, TowerInfo(r, obb_center, cluster_points))
                         /\ tower_info_list' = Append(tower_info_list, InfoRow(label, r, obb_center))
                         /\ written' = Append(written,
                              [path |-> output_path, ok |-> saved,
                               points |-> OriginalPoints(cluster_points, centroid)])
                         /\ log' = log \o SaveLog(output_path, saved) \o <<Entry("tower", label)>>
                         /\ progress_values' =
                              Append(progress_values,
                                     ClusterProgress(label_idx + 1, Len(unique_labels)))
                    ELSE /\ log' = IF duplicate THEN Append(log, Entry("dup", label))
                                   ELSE IF ~r.ok THEN Append(log, Entry("cluster_fail", label))
                                   ELSE log
                         /\ UNCHANGED <<tower_obbs, tower_info_list, written, progress_values>>
                 /\ tower_centers' = NextCenters(tower_centers, obb_center, emit, r.ok)
                 /\ bound' = d.bound
                 /\ IF d.ok
                    THEN /\ label_idx' = label_idx + 1
                         /\ pc' = IF label_idx + 1 = Len(unique_labels) THEN "excel" ELSE "detect"
                    ELSE /\ label_idx' = label_idx
                         /\ pc' = "raised"
  /\ UNCHANGED <<sideVars, paramVars, inputVars, filterVars, clusterVars, unique_labels, runVars>>

\* lines 221-231
SaveExcel ==
  /\ pc = "excel"
  /\ IF tower_info_list # << >>
     THEN \E r \in Answer(env.excel, 0, {TRUE, FALSE}) :
            /\ env' = [env EXCEPT !.excel = Remember(@, 0, r)]
            /\ log' = IF r THEN log \o <<Entry("excel_ok", 0), Entry("count", Len(tower_obbs))>>
                      ELSE Append(log, Entry("excel_fail", 0))
     ELSE /\ log' = Append(log, Entry("no_towers", 0))
          /\ UNCHANGED env
  /\ pc' = "cleanup"
  /\ UNCHANGED <<sideVars, paramVars, inputVars, filterVars, clusterVars, bound, detectVars,
                 progress_values, runVars>>

\* lines 234-240 (points and filtered_points are deleted here; the model
\* keeps their last values readable)
Cleanup ==
  /\ pc = "cleanup"
  /\ log' = log \o <<Entry("cleanup", 0), Entry("done", 0)>>
  /\ progress_values' = Append(progress_values, 100)
  /\ pc' = "returned"
  /\ UNCHANGED <<sideVars, paramVars, inputVars, filterVars, clusterVars, bound, detectVars,
                 env, runVars>>

Finished == pc \in {"returned", "raised"}

Next ==
  \/ MakeOutputDir
  \/ ReadFile
  \/ HeightFilter
  \/ ClusterChunk
  \/ StartDetection
  \/ DetectCluster
  \/ SaveExcel
  \/ Cleanup

Spec == Init /\ [][Next]_vars

\* A second call of extract_towers on the same file with the same
\* parameters: every library call is given the same input as in the first
\* run and so returns what env remembers.
Rerun ==
  /\ Finished
  /\ run = 1
  /\ run' = 2
  /\ first_result' = [pc |-> pc, tower_obbs |-> tower_obbs]
  /\ pc' = "mkdir"
  /\ raw_points' = << >> /\ centroid' = <<0, 0, 0>> /\ points' = << >>
  /\ base_height' = 0 /\ offset_used' = 0 /\ filtered_points' = << >>
  /\ all_labels' = << >> /\ current_label' = 0 /\ i' = 0
  /\ bound' = {}
  /\ unique_labels' = << >> /\ label_idx' = 0 /\ extents' = <<0, 0, 0>>
  /\ tower_centers' = << >> /\ tower_obbs' = << >> /\ tower_info_list' = << >>
  /\ written' = << >>
  /\ log' = << >> /\ progress_values' = << >>
  /\ UNCHANGED <<sideVars, paramVars, env>>

NextTwoRuns == Next \/ Rerun
\* the file of the two runs: one low point, the others high
TwoRunFile == [k \in 1..MaxPoints |-> <<k, 0, IF k = 1 THEN 0 ELSE 12>>]
InitTwoRuns ==
  /\ Fresh
  /\ TTIdle /\ RDIdle /\ GUIIdle
  /\ duplicate_threshold = DefaultDupThreshold
  /\ min_width = DefaultMinWidth
  /\ is_downsampled_file \in BOOLEAN
  /\ env = [NoAnswers EXCEPT !.read = Remember(@, 0, [ok |-> TRUE, points |-> TwoRunFile])]
  /\ run = 1
  /\ first_result = [pc |-> "none", tower_obbs |-> << >>]
SpecTwoRuns == InitTwoRuns /\ [][NextTwoRuns]_vars

\* One call of extract_towers with min_width set by the caller.
InitThresholds ==
  /\ Fresh
  /\ TTIdle /\ RDIdle /\ GUIIdle
  /\ duplicate_threshold = DefaultDupThreshold
  /\ min_width \in MinWidths
  /\ is_downsampled_file = TRUE
  /\ env = NoAnswers
  /\ run = 1
  /\ first_result = [pc |-> "none", tower_obbs |-> << >>]
SpecThresholds == InitThresholds /\ [][Next]_vars

\* =========================================== src/tset_tower/tt001.py
\* The detection loop of the quality-based variant (lines 169-308).
MaxClusters == 3
min_points == 80
strict_duplicate_threshold == 2
\* clusters as trimesh measures them, centers on the x axis
TTCenters == {0, 1, 40}
TTClusters ==
  {[center |-> <<c, 0, 0>>, extents |-> <<w, 6, 20>>, points_count |-> n] :
     c \in TTCenters, w \in {10, 12}, n \in {min_points, 200}}
  \cup {[center |-> <<0, 0, 0>>, extents |-> <<10, 6, 15>>, points_count |-> min_points],
        [center |-> <<0, 0, 0>>, extents |-> GoodExtents, points_count |-> min_points - 1]}
\* math.log(n), in thousandths, of the arguments that occur
LnMilli(n) == CASE n = min_points + 1 -> 4394 [] n = 201 -> 5303
\* calculate_quality (lines 173-175)
calculate_quality(height, width, points_count) == height * width * LnMilli(points_count + 1)
\* tower_info (lines 266-275)
TTTowerInfo(c) ==
  [center |-> c.center, extent |-> c.extents, height |-> Height(c.extents),
   width |-> Width(c.extents),
   quality |-> calculate_quality(Height(c.extents), Width(c.extents), c.points_count)]
\* the row of tower_info_list (lines 280-291).  Its keys are Chinese
\* column titles, written here in pinyin: 杆塔高度, 宽度, 点数, 质量指标.
\* The coordinate, angle and ratio columns are left out.
TTInfoRow(label, c) ==
  [ID |-> label, gan_ta_gao_du |-> Height(c.extents), kuan_du |-> Width(c.extents),
   dian_shu |-> c.points_count,
   zhi_liang_zhi_biao |-> calculate_quality(Height(c.extents), Width(c.extents), c.points_count)]
\* row[key] of a dict: KeyError when the key is missing
GetItem(row, key) ==
  IF key \in DOMAIN row THEN [ok |-> TRUE, val |-> row[key]] ELSE [ok |-> FALSE, val |-> 0]
\* del seq[k] (k from 1)
RemoveAt(seq, k) == SubSeq(seq, 1, k - 1) \o SubSeq(seq, k + 1, Len(seq))
Within(a, b, thr) == SqDist(a, b) < thr * thr
\* the scan of lines 206-219 stops at the first center closer than either threshold
ScanHits(center, centers) ==
  {k \in DOMAIN centers : Within(center, centers[k], strict_duplicate_threshold)
                            \/ Within(center, centers[k], DefaultDupThreshold)}

\* lines 176-308: one iteration of the loop, its finally included
TTDetectCluster ==
  /\ tt_pc = "detect"
  /\ tt_label_idx < Len(tt_clusters)
  /\ LET label  == tt_label_idx
         c      == tt_clusters[tt_label_idx + 1]
         few    == c.points_count < min_points
         shape  == ShapeAccepted(Height(c.extents), Width(c.extents))
         hits   == ScanHits(c.center, tt_tower_centers)
         existing_index == CHOOSE k \in hits : \A h \in hits : k <= h
         strict == hits # {} /\ Within(c.center, tt_tower_centers[existing_index],
                                       strict_duplicate_threshold)
         row    == tt_tower_info_list[existing_index]
         h      == GetItem(row, "height")
         w      == GetItem(row, "width")
         n      == GetItem(row, "dian_shu")
         raised == ~(h.ok /\ w.ok /\ n.ok)
         current_quality  == calculate_quality(Height(c.extents), Width(c.extents), c.points_count)
         existing_quality == calculate_quality(h.val, w.val, n.val)
         replace == strict /\ ~raised /\ current_quality > existing_quality
         append == ~few /\ shape /\ (hits = {} \/ replace)
         obbs    == IF replace THEN RemoveAt(tt_tower_obbs, existing_index) ELSE tt_tower_obbs
         centers == IF replace THEN RemoveAt(tt_tower_centers, existing_index) ELSE tt_tower_centers
         infos   == IF replace THEN RemoveAt(tt_tower_info_list, existing_index)
                    ELSE tt_tower_info_list
     IN  /\ IF append
            THEN /\ tt_tower_obbs' = Append(obbs, TTTowerInfo(c))
                 /\ tt_tower_centers' = Append(centers, c.center)
                 /\ tt_tower_info_list' = Append(infos, TTInfoRow(label, c))
            ELSE UNCHANGED <<tt_tower_obbs, tt_tower_centers, tt_tower_info_list>>
         /\ tt_log' =
              IF few \/ ~shape THEN tt_log
              ELSE IF hits = {} THEN Append(tt_log, Entry("tower", label))
              ELSE IF strict /\ raised THEN Append(tt_log, Entry("cluster_fail", label))
              ELSE IF replace THEN tt_log \o <<Entry("replace", label), Entry("tower", label)>>
              ELSE IF strict THEN Append(tt_log, Entry("skip_strict", label))
              ELSE Append(tt_log, Entry("dup", label))
         \* `continue` at line 182 precedes the binding of cluster_pc and obb:
         \* the del of the finally clause raises UnboundLocalError
         /\ IF ~Del(<<"cluster_points", "cluster_pc", "obb">>,
                     IF few THEN {"cluster_points"}
                     ELSE {"cluster_points", "cluster_pc", "obb"}).ok
            THEN tt_pc' = "raised" /\ UNCHANGED tt_label_idx
            ELSE tt_pc' = "detect" /\ tt_label_idx' = tt_label_idx + 1
  /\ UNCHANGED <<tt_clusters, towerVars, rdVars, guiVars>>

\* the loop is exhausted
TTLoopEnd ==
  /\ tt_pc = "detect"
  /\ tt_label_idx = Len(tt_clusters)
  /\ tt_pc' = "returned"
  /\ UNCHANGED <<tt_clusters, tt_label_idx, tt_tower_obbs, tt_tower_centers,
                 tt_tower_info_list, tt_log, towerVars, rdVars, guiVars>>

\* extract_towers is not running
TowerIdle ==
  /\ Fresh
  /\ duplicate_threshold = DefaultDupThreshold
  /\ min_width = DefaultMinWidth
  /\ is_downsampled_file = TRUE
  /\ env = NoAnswers
  /\ run = 1
  /\ first_result = [pc |-> "none", tower_obbs |-> << >>]

InitTT ==
  /\ TowerIdle /\ RDIdle /\ GUIIdle
  /\ tt_pc = "detect"
  /\ tt_clusters \in SeqsUpTo(TTClusters, MaxClusters)
  /\ tt_label_idx = 0
  /\ tt_tower_obbs = << >> /\ tt_tower_centers = << >> /\ tt_tower_info_list = << >>
  /\ tt_log = << >>
NextTT == TTDetectCluster \/ TTLoopEnd
SpecTT == InitTT /\ [][NextTT]_vars

\* ================================================= src/test/008.py
\* StandaloneTowerExtractor.remove_duplicates (lines 339-370)
MaxTowers == 3
distance_threshold == 25
RDCenters == {0, 20, 40}
RDPointCounts == {1, 2}
\* detect_towers numbers the towers it returns: "id": len(towers) + 1.
\* The ids differ, so list.remove(existing), which compares dicts key by
\* key starting at "id", removes exactly `existing`.
RDInputs ==
  {[k \in DOMAIN s |-> [id |-> k, center |-> <<s[k][1], 0, 0>>, point_count |-> s[k][2]]] :
     s \in SeqsUpTo(RDCenters \X RDPointCounts, MaxTowers)}
\* list.remove(x): drops the first element equal to x
ListRemove(seq, x) ==
  LET k == CHOOSE j \in DOMAIN seq : seq[j] = x /\ \A m \in 1..(j - 1) : seq[m] # x
  IN  RemoveAt(seq, k)

\* lines 341-347
RDStart ==
  /\ rd_pc = "start"
  /\ IF Len(rd_towers) <= 1
     THEN /\ rd_result' = rd_towers
          /\ rd_pc' = "returned"
          /\ UNCHANGED rd_idx
     ELSE /\ rd_pc' = "loop"
          /\ rd_idx' = 0
          /\ UNCHANGED rd_result
  /\ rd_unique_towers' = << >>
  /\ UNCHANGED <<rd_towers, towerVars, ttVars, guiVars>>

\* lines 349-364: one iteration of the outer loop
RDTower ==
  /\ rd_pc = "loop"
  /\ rd_idx < Len(rd_towers)
  /\ LET tower == rd_towers[rd_idx + 1]
         close == {k \in DOMAIN rd_unique_towers :
                     Within(tower.center, rd_unique_towers[k].center, distance_threshold)}
         first == CHOOSE k \in close : \A h \in close : k <= h
         existing == rd_unique_towers[first]
         is_duplicate == close # {} /\ tower.point_count <= existing.point_count
         kept == IF close # {} /\ ~is_duplicate
                 THEN ListRemove(rd_unique_towers, existing)
                 ELSE rd_unique_towers
     IN  rd_unique_towers' = IF is_duplicate THEN kept ELSE Append(kept, tower)
  /\ rd_idx' = rd_idx + 1
  /\ UNCHANGED <<rd_pc, rd_towers, rd_result, towerVars, ttVars, guiVars>>

\* lines 366-370
RDReturn ==
  /\ rd_pc = "loop"
  /\ rd_idx = Len(rd_towers)
  /\ rd_result' = rd_unique_towers
  /\ rd_pc' = "returned"
  /\ UNCHANGED <<rd_towers, rd_idx, rd_unique_towers, towerVars, ttVars, guiVars>>

InitRD ==
  /\ TowerIdle /\ TTIdle /\ GUIIdle
  /\ rd_pc = "start"
  /\ rd_towers \in RDInputs
  /\ rd_idx = 0
  /\ rd_unique_towers = << >>
  /\ rd_result = << >>
NextRD == RDStart \/ RDTower \/ RDReturn
SpecRD == InitRD /\ [][NextRD]_vars

\* ============================================== src/GUI/pc_towers.py
\* TowerDetectionTool: the button "去除地物" and the threads it starts
MaxClicks == 3
GUIRunning == {"extract", "write_las", "write_xlsx", "assign", "reload"}
Running == {t \in DOMAIN gui_threads : gui_threads[t] \in GUIRunning}
Clicks == Len(gui_threads) + Cardinality({k \in DOMAIN gui_log : gui_log[k].tag = "warning"})

\* remove_ground_objects (lines 225-234), run on the GUI thread for a click
RemoveGroundObjects ==
  /\ Clicks < MaxClicks
  /\ IF gui_pointcloud_path = "None"
     THEN /\ gui_log' = Append(gui_log, Entry("warning", 0))
          /\ UNCHANGED gui_threads
     ELSE /\ gui_log' = Append(gui_log, Entry("start", Len(gui_threads) + 1))
          /\ gui_threads' = Append(gui_threads, "extract")
  /\ UNCHANGED <<gui_pointcloud_path, gui_tower_geometries, towerVars, ttVars, rdVars>>

\* extract_towers (lines 338-563) as a thread runs it: clustering, then the
\* export of output_towers/tower_<label>.las, then towers_info.xlsx
ExtractStep(t) ==
  /\ gui_threads[t] \in {"extract", "write_las", "write_xlsx"}
  /\ gui_threads' = [gui_threads EXCEPT ![t] =
       CASE @ = "extract" -> "write_las"
         [] @ = "write_las" -> "write_xlsx"
         [] @ = "write_xlsx" -> "assign"]
  /\ UNCHANGED <<gui_pointcloud_path, gui_tower_geometries, gui_log, towerVars, ttVars, rdVars>>

\* run_tower_extraction, line 247
AssignGeometries(t) ==
  /\ gui_threads[t] = "assign"
  /\ gui_tower_geometries' = t
  /\ gui_threads' = [gui_threads EXCEPT ![t] = "reload"]
  /\ UNCHANGED <<gui_pointcloud_path, gui_log, towerVars, ttVars, rdVars>>

\* run_tower_extraction, lines 249-262: the cloud is read again, which
\* either succeeds or raises
ReloadCloud(t) ==
  /\ gui_threads[t] = "reload"
  /\ \E ok \in BOOLEAN :
       /\ gui_threads' = [gui_threads EXCEPT ![t] = IF ok THEN "done" ELSE "failed"]
       /\ gui_log' = Append(gui_log, Entry(IF ok THEN "done" ELSE "failed", t))
  /\ UNCHANGED <<gui_pointcloud_path, gui_tower_geometries, towerVars, ttVars, rdVars>>

InitGUI ==
  /\ TowerIdle /\ TTIdle /\ RDIdle
  /\ gui_pointcloud_path \in {"None", "set"}
  /\ gui_threads = << >>
  /\ gui_tower_geometries = 0
  /\ gui_log = << >>
NextGUI ==
  \/ RemoveGroundObjects
  \/ \E t \in DOMAIN gui_threads : ExtractStep(t)
  \/ \E t \in DOMAIN gui_threads : AssignGeometries(t)
  \/ \E t \in DOMAIN gui_threads : ReloadCloud(t)
SpecGUI == InitGUI /\ [][NextGUI]_vars

\* ============================================================ claims
\* the chunk of the j-th filtered point, and the label DBSCAN gave it
ChunkOf(j) == (j - 1) \div chunk_size
LocalLabel(j) ==
  env.dbscan[Chunk(filtered_points, ChunkOf(j))].labels[j - ChunkLo(ChunkOf(j)) + 1]
ChunkLoopDone == pc = "detect_setup" \/ Logged("detect_start")
\* the OBB trimesh returned for the cluster of a label
OBBOf(label) == env.obb[ClusterPoints(filtered_points, all_labels, label)]
Measured(label) == ClusterPoints(filtered_points, all_labels, label) \in DOMAIN env.obb
StrictShape(e) ==
  /\ Height(e) > min_height
  /\ min_width < Width(e) /\ Width(e) < max_width
  /\ Height(e) * ARDen > ARNum * Width(e)
N == Len(raw_points)
TooClose(a, b) == SqDist(a, b) < (N * duplicate_threshold) * (N * duplicate_threshold)

\* C1: when the chunk loop has finished, two filtered points carry the same
\* non-noise global label only if they lie in the same chunk and DBSCAN gave
\* them the same chunk-local label.
C1_GlobalLabelsDistinct ==
  ChunkLoopDone =>
    \A j, k \in DOMAIN all_labels :
      (all_labels[j] # Noise /\ all_labels[j] = all_labels[k]) =>
        (ChunkOf(j) = ChunkOf(k) /\ LocalLabel(j) = LocalLabel(k))
\* two chunks that both used the chunk-local label 0, one of them for two points
C1_Witness ==
  /\ ChunkLoopDone
  /\ \E j, k \in DOMAIN all_labels :
       /\ ChunkOf(j) # ChunkOf(k)
       /\ all_labels[j] # Noise /\ all_labels[k] # Noise
       /\ LocalLabel(j) = LocalLabel(k)
  /\ \E j, k \in DOMAIN all_labels : j # k /\ all_labels[j] # Noise /\ all_labels[j] = all_labels[k]

\* C2: at every point of the detection loop and on return, no two records
\* of the result have centers closer than duplicate_threshold.
C2_NoCloseRecords ==
  \A a, b \in DOMAIN tower_obbs :
    a # b => ~TooClose(tower_obbs[a].center, tower_obbs[b].center)
\* two records returned, and a duplicate was rejected on the way
C2_Witness == pc = "returned" /\ Len(tower_obbs) >= 2 /\ Logged("dup")

\* C3: every emitted record has height > min_height, min_width < width <
\* max_width and height / width > aspect_ratio_threshold, all strict.
C3_StrictThresholds ==
  \A k \in DOMAIN tower_obbs :
    /\ StrictShape(tower_obbs[k].extent)
    /\ tower_obbs[k].height = Height(tower_obbs[k].extent)
    /\ tower_obbs[k].width = Width(tower_obbs[k].extent)
\* a tower was emitted and the last cluster measured lay exactly on a threshold
C3_Witness ==
  /\ pc = "returned"
  /\ tower_obbs # << >>
  /\ extents \in BoundaryExtents
  /\ Len(tower_obbs) < Len(unique_labels)

\* C4: first accepted wins.  A step never removes or changes a record
\* already in the result; a shape-accepted candidate closer than
\* duplicate_threshold to a record is not added; and two shape-accepted
\* clusters 5 apart with threshold 10 give one record, the first one's.
KeepsRecords ==
  /\ Len(tower_obbs') >= Len(tower_obbs)
  /\ SubSeq(tower_obbs', 1, Len(tower_obbs)) = tower_obbs
RejectsCloseCandidate ==
  (pc = "detect" /\ label_idx' = label_idx + 1) =>
    LET label == unique_labels[label_idx + 1]
        r     == env'.obb[ClusterPoints(filtered_points, all_labels, label)]
    IN  (/\ r.ok
         /\ StrictShape(r.extents)
         /\ \E k \in DOMAIN tower_obbs :
              TooClose(WorldCenter(r.center, centroid, N), tower_obbs[k].center))
        => tower_obbs' = tower_obbs
TwoClustersFiveApart ==
  /\ duplicate_threshold = 10
  /\ Len(unique_labels) = 2
  /\ \A k \in 1..2 : Measured(unique_labels[k]) /\ OBBOf(unique_labels[k]).ok
                     /\ StrictShape(OBBOf(unique_labels[k]).extents)
  /\ SqDist(OBBOf(unique_labels[1]).center, OBBOf(unique_labels[2]).center) = 25
ScenarioC ==
  (pc = "returned" /\ TwoClustersFiveApart) =>
    /\ Len(tower_obbs) = 1
    /\ tower_info_list[1].ID = unique_labels[1]
    /\ tower_obbs[1].center = WorldCenter(OBBOf(unique_labels[1]).center, centroid, N)
C4_FirstAcceptedWins == [][KeepsRecords /\ RejectsCloseCandidate]_vars /\ []ScenarioC
C4_Witness == pc = "returned" /\ TwoClustersFiveApart /\ Logged("dup") /\ Len(tower_obbs) = 1

\* C5: no exception escapes a call of extract_towers.
C5_NoExceptionEscapes == pc # "raised"

\* C6: a chunk whose clustering call raised does not abort the run: the
\* loop goes on and the detection stage is reached.
C6_ChunkFailureContinues == Logged("chunk_fail") => (pc # "raised" \/ Logged("detect_start"))

\* C7: a cluster whose OBB computation raised is skipped and the run goes
\* on with the remaining clusters; it is not aborted.
C7_ClusterFailureSkipped == Logged("cluster_fail") => pc # "raised"

\* C8: the north_angle of every emitted record is >= 0 and < 360 degrees.
C8_NorthAngleInRange ==
  \A k \in DOMAIN tower_obbs :
    tower_obbs[k].north_angle >= 0 /\ tower_obbs[k].north_angle < Deg(360)

\* C9: every point passed on to clustering has z > p25 + offset, p25 the
\* 25th percentile of the z of all centred points, offset 3.0, or 1.0 when
\* the fallback was taken.
FilterDone == pc \notin {"mkdir", "read", "filter"} /\ Logged("filter_done") /\ N > 0
C9_RetainedAboveThreshold ==
  FilterDone =>
    LET p25x4 == Percentile25x4(ZOf(points))
        off   == IF Logged("fallback") THEN FallbackOffset ELSE FilterOffset
    IN  \A k \in DOMAIN filtered_points :
          /\ 4 * filtered_points[k][3] > p25x4 + 4 * N * off
          /\ \E j \in DOMAIN points : points[j] = filtered_points[k]
\* the fallback was taken; points were kept, and a point lying exactly on
\* p25 + 3.0 had been dropped by the first filter
C9_Witness ==
  /\ FilterDone
  /\ Logged("fallback")
  /\ filtered_points # << >>
  /\ \E j \in DOMAIN points :
       4 * points[j][3] = Percentile25x4(ZOf(points)) + 4 * N * FilterOffset

\* C10: two runs on the same file with the same parameters return the same
\* records in the same order.
C10_SameRecords ==
  (run = 2 /\ pc = "returned" /\ first_result.pc = "returned") =>
    tower_obbs = first_result.tower_obbs

\* C11: the detection loop takes the clusters in ascending global label
\* order: unique_labels is ascending, the labels appear in the log in
\* ascending order, and a rejected duplicate lies within duplicate_threshold
\* of a retained tower with a smaller label.
ProcessedTags == {"tower", "dup", "cluster_fail"}
C12_ReadFailureAborts ==
  Logged("read_fail") =>
    /\ pc = "returned"
    /\ tower_obbs = << >>
    /\ log = <<Entry("read", 0), Entry("read_fail", 0)>>
    /\ filtered_points = << >> /\ all_labels = << >> /\ unique_labels = << >>
    /\ written = << >>
    /\ DOMAIN env.percentile = {} /\ DOMAIN env.dbscan = {} /\ DOMAIN env.obb = {}
    /\ DOMAIN env.save = {} /\ DOMAIN env.excel = {}
C12_Witness == Logged("read_fail") /\ pc = "returned" /\ progress_values = <<5>>

\* C13: a file that was read and holds no point gives no exception and no
\* record, and the returned call has logged a warning.
ZeroPoints == \E k \in DOMAIN log : log[k] = Entry("read_done", 0)
C13_EmptyCloud ==
  ZeroPoints =>
    /\ pc # "raised"
    /\ tower_obbs = << >>
    /\ pc = "returned" => (Logged("filter_fail") \/ (Logged("fallback") /\ Logged("no_towers")))
C13_Witness == ZeroPoints /\ pc = "returned" /\ Logged("no_towers")

\* C14: a failed write of a tower's point file is logged, the tower's
\* record stays in the result, and the loop goes on with the next cluster.
SaveFailedNow == Len(written') = Len(written) + 1 /\ ~written'[Len(written')].ok
SaveFailureStep ==
  SaveFailedNow =>
    /\ pc' \in {"detect", "excel"}
    /\ label_idx' = label_idx + 1
    /\ tower_obbs' = Append(tower_obbs, tower_obbs'[Len(tower_obbs')])
SaveFailureKept ==
  \A k \in DOMAIN written :
    ~written[k].ok =>
      /\ k \in DOMAIN tower_obbs
      /\ OutputPath(tower_info_list[k].ID) = written[k].path
      /\ \E e \in DOMAIN log : log[e] = Entry("save_fail", written[k].path)
C14_SaveFailureKeepsRecord == [][SaveFailureStep]_vars /\ []SaveFailureKept
\* a write failed, a later tower was exported, and the call returned both
C14_Witness ==
  /\ pc = "returned"
  /\ Len(tower_obbs) >= 2
  /\ ~written[1].ok /\ written[2].ok

\* C15: the center of every record is the OBB center of its cluster plus
\* the mean of all raw points, and the exported points of every tower are
\* its cluster's points moved back by the same mean.
C15_WorldCoordinates ==
  /\ Len(written) = Len(tower_obbs)
  /\ \A k \in DOMAIN tower_obbs :
       LET c == OBBOf(tower_info_list[k].ID).center
       IN  /\ \A a \in 1..3 : tower_obbs[k].center[a] = N * c[a] + SumZ(raw_points, a)
           /\ \A m \in DOMAIN written[k].points :
                /\ \A a \in 1..3 :
                     written[k].points[m][a] = tower_obbs[k].points[m][a] + SumZ(raw_points, a)
                /\ \E j \in DOMAIN raw_points :
                     \A a \in 1..3 : written[k].points[m][a] = N * raw_points[j][a]
C15_Witness ==
  /\ pc = "returned"
  /\ Len(tower_obbs) >= 2
  /\ SumZ(raw_points, 3) # 0
  /\ tower_obbs[1].center # tower_obbs[2].center

\* C16: every record belongs to one non-noise cluster label whose OBB
\* passed the shape test, and no label has two records.
C16_OneRecordPerCluster ==
  /\ Len(tower_info_list) = Len(tower_obbs)
  /\ \A k \in DOMAIN tower_obbs :
       LET id == tower_info_list[k].ID
       IN  /\ id # Noise
           /\ id \in Range(all_labels)
           /\ Measured(id) /\ OBBOf(id).ok
           /\ StrictShape(OBBOf(id).extents)
           /\ tower_obbs[k].extent = OBBOf(id).extents
           /\ tower_obbs[k].points = ClusterPoints(filtered_points, all_labels, id)
  /\ \A j, k \in DOMAIN tower_info_list :
       j # k => tower_info_list[j].ID # tower_info_list[k].ID
\* two towers returned from a cloud that also had noise points
C16_Witness ==
  /\ pc = "returned"
  /\ Len(tower_obbs) >= 2
  /\ Noise \in Range(all_labels)

\* C17: no two towers of a run are exported to the same path.
C17_DistinctPaths ==
  /\ Len(written) = Len(tower_obbs)
  /\ \A j, k \in DOMAIN written : j # k => written[j].path # written[k].path
C17_Witness == pc = "returned" /\ Len(written) >= 3

\* C18: a record whose principal axis has a horizontal projection below
\* the epsilon has north_angle 0, and the degeneracy was logged.
Degenerate(axis) == Norm(<<axis[1], axis[2]>>) * 1000000 <= AxisUnit
C18_DegenerateAxisGivesZero ==
  \A k \in DOMAIN tower_obbs :
    Degenerate(PrincipalAxis(tower_obbs[k].rotation)) =>
      (tower_obbs[k].north_angle = 0 /\ Logged("degenerate"))

\* C19: the axis the orientation step uses is a column of the rotation
\* matrix whose horizontal projection is the longest of the three.
HorizSq(axis) == axis[1] * axis[1] + axis[2] * axis[2]
C19_LongestProjectionAxis ==
  \A k \in DOMAIN tower_obbs :
    \A c \in 1..3 :
      HorizSq(PrincipalAxis(tower_obbs[k].rotation)) >= HorizSq(tower_obbs[k].rotation[c])

\* C20: at the start of chunk i the running offset is one plus the largest
\* non-noise global label of the chunks before it (0 without one); every
\* non-noise chunk-local label l was written as l + the offset of its
\* chunk, every noise point as -1.
RunningOffset(c) ==
  LET prior == {all_labels[j] : j \in 1..Min2(ChunkLo(c) - 1, Len(all_labels))} \ {Noise}
  IN  IF prior = {} THEN 0 ELSE MaxOf(prior) + 1
C20_RunningOffset ==
  /\ current_label = RunningOffset(i)
  /\ \A j \in DOMAIN all_labels :
       IF j < ChunkLo(i)
       THEN all_labels[j] = IF LocalLabel(j) = Noise THEN Noise
                            ELSE LocalLabel(j) + RunningOffset(ChunkOf(j))
       ELSE all_labels[j] = Noise
\* the first chunk holds a cluster and a noise point, the second chunk the
\* local label 0, written above 0
C20_Witness ==
  /\ ChunkLoopDone
  /\ \E j, k \in DOMAIN all_labels :
       /\ ChunkOf(j) = 1 /\ ChunkOf(k) = 0
       /\ LocalLabel(j) = 0 /\ all_labels[j] > 0
       /\ all_labels[k] = Noise

\* C21: the filter with offset 3.0 is followed by exactly one filter with
\* offset 1.0, and one fallback message, when it left fewer than the minimum
\* viable number of points, whatever the second filter leaves; and by none
\* when it left that number or more.
KeptAbove(off) ==
  SelectSeq(points, LAMBDA p : 4 * p[3] > Percentile25x4(ZOf(points)) + 4 * N * off)
Fallbacks == Cardinality({k \in DOMAIN log : log[k].tag = "fallback"})
C21_FallbackOnce ==
  FilterDone =>
    IF Len(KeptAbove(FilterOffset)) < MinViable
    THEN Fallbacks = 1 /\ offset_used = FallbackOffset /\ filtered_points = KeptAbove(FallbackOffset)
    ELSE Fallbacks = 0 /\ offset_used = FilterOffset /\ filtered_points = KeptAbove(FilterOffset)
\* the second filter again left fewer than the minimum, and clustering went on
C21_Witness ==
  /\ FilterDone
  /\ Fallbacks = 1
  /\ filtered_points # << >> /\ Len(filtered_points) < MinViable
  /\ ChunkLoopDone

\* C22: the global labels written by the running offset are those of the
\* prefix sum: every non-noise chunk-local label plus the number of
\* clusters of all chunks before its own, and the running offset at chunk i
\* is the number of clusters of the chunks before i.
RECURSIVE PrefixCount(_)
PrefixCount(c) ==
  IF c = 0 THEN 0
  ELSE PrefixCount(c - 1)
         + Cardinality(Range(env.dbscan[Chunk(filtered_points, c - 1)].labels) \ {Noise})
C22_PrefixSumLabels ==
  /\ current_label = PrefixCount(i)
  /\ \A j \in DOMAIN all_labels :
       j < ChunkLo(i) =>
         all_labels[j] = IF LocalLabel(j) = Noise THEN Noise
                         ELSE LocalLabel(j) + PrefixCount(ChunkOf(j))
\* two clusters in the first chunk, one in the second
C22_Witness ==
  /\ ChunkLoopDone
  /\ i = 2
  /\ PrefixCount(1) = 2
  /\ current_label = 3

\* C23: a cluster of width zero never yields a record, whatever min_width is.
C23_ZeroWidthSkipped == \A k \in DOMAIN tower_obbs : tower_obbs[k].width # 0

\* C24: in the step in which the clustering of chunk i fails, the labels
\* and the running offset do not change, and every point of chunk i has the
\* label -1.
ChunkFailedNow == Len(log') > Len(log) /\ log'[Len(log')].tag = "chunk_fail"
ChunkFailureFrame ==
  ChunkFailedNow =>
    /\ all_labels' = all_labels
    /\ current_label' = current_label
    /\ \A j \in DOMAIN all_labels' : ChunkOf(j) = i => all_labels'[j] = Noise
C24_FailedChunkStaysNoise == [][ChunkFailureFrame]_vars
\* the second chunk failed after the first had written a cluster
C24_Witness ==
  /\ Logged("chunk_fail")
  /\ i = 1
  /\ current_label > 0
  /\ \E j \in DOMAIN all_labels : all_labels[j] # Noise
  /\ \E j \in DOMAIN all_labels : ChunkOf(j) = 1 /\ all_labels[j] = Noise

\* C25: the reference centers are exactly the centers of the emitted
\* records, and a processed cluster that passed the shape test either has a
\* record or lies within duplicate_threshold of a record emitted before it.
PassedShape(label) == OBBOf(label).ok /\ StrictShape(OBBOf(label).extents)
RecordOf(label) == {t \in DOMAIN tower_info_list : tower_info_list[t].ID = label}
C25_OnlyRecordsSuppress ==
  /\ tower_centers = [k \in DOMAIN tower_obbs |-> tower_obbs[k].center]
  /\ \A p \in 1..label_idx :
       PassedShape(unique_labels[p]) =>
         \/ RecordOf(unique_labels[p]) # {}
         \/ \E q \in 1..(p - 1) : \E t \in RecordOf(unique_labels[q]) :
              TooClose(tower_info_list[t].center,
                       WorldCenter(OBBOf(unique_labels[p]).center, centroid, N))
\* a cluster rejected by the shape test, then a tower within the threshold
\* of it that was emitted all the same
C25_Witness ==
  /\ pc = "returned"
  /\ \E p, q \in 1..label_idx :
       /\ p < q
       /\ OBBOf(unique_labels[p]).ok /\ ~PassedShape(unique_labels[p])
       /\ PassedShape(unique_labels[q]) /\ RecordOf(unique_labels[q]) # {}
       /\ TooClose(WorldCenter(OBBOf(unique_labels[p]).center, centroid, N),
                   WorldCenter(OBBOf(unique_labels[q]).center, centroid, N))

\* C28: the label array is as long as the filtered cloud; chunk c is the
\* points at indices c*chunk_size .. min((c+1)*chunk_size, n)-1, it is what
\* DBSCAN was called with, and the label of its k-th point is stored at
\* index c*chunk_size + k; when the loop ends every point has been in a chunk.
ChunkLen(c) == Min2((c + 1) * chunk_size, Len(filtered_points)) - c * chunk_size
ExpectedChunk(c) == [k \in 1..ChunkLen(c) |-> filtered_points[c * chunk_size + k]]
C28_ChunksPartition ==
  /\ Len(all_labels) = Len(filtered_points)
  /\ i * chunk_size < Len(filtered_points) + chunk_size
  /\ (ChunkLoopDone /\ ~Logged("chunk_fail")) => i * chunk_size >= Len(filtered_points)
  /\ \A c \in 0..(i - 1) :
       /\ ChunkLen(c) >= 1
       /\ Chunk(filtered_points, c) = ExpectedChunk(c)
       /\ ExpectedChunk(c) \in DOMAIN env.dbscan
       /\ LET r == env.dbscan[ExpectedChunk(c)]
          IN  /\ r.ok
              /\ Len(r.labels) = ChunkLen(c)
              /\ \A k, m \in 1..ChunkLen(c) :
                   /\ r.labels[k] = Noise <=> all_labels[c * chunk_size + k] = Noise
                   /\ (r.labels[k] # Noise /\ r.labels[m] # Noise) =>
                        all_labels[c * chunk_size + k] - r.labels[k]
                          = all_labels[c * chunk_size + m] - r.labels[m]
\* a cloud whose length is not a multiple of chunk_size, the last chunk labelled
C28_Witness ==
  /\ ChunkLoopDone
  /\ Len(filtered_points) % chunk_size # 0
  /\ i = 2
  /\ all_labels[Len(all_labels)] # Noise

\* C30: the progress values of a run are integers in 0..100 and never decrease.
C30_ProgressMonotone ==
  \A k \in DOMAIN progress_values :
    /\ progress_values[k] \in 0..100
    /\ k > 1 => progress_values[k - 1] <= progress_values[k]
\* two chunks, three clusters of which one was rejected
C30_Witness ==
  /\ pc = "returned"
  /\ i = 2
  /\ Len(unique_labels) = 3 /\ Len(tower_obbs) = 2
  /\ progress_values[Len(progress_values)] = 100

\* C26: in tt001, when a shape-accepted candidate lies closer than
\* strict_duplicate_threshold to an accepted tower, then with a strictly
\* greater quality the tower is removed and the candidate appended, and
\* otherwise the result is left as it is.
TTCandidate == tt_clusters[tt_label_idx + 1]
QualityStep ==
  (tt_pc = "detect" /\ tt_label_idx < Len(tt_clusters)) =>
    \A k \in DOMAIN tt_tower_centers :
      (/\ TTCandidate.points_count >= min_points
       /\ StrictShape(TTCandidate.extents)
       /\ Within(TTCandidate.center, tt_tower_centers[k], strict_duplicate_threshold))
      => IF TTTowerInfo(TTCandidate).quality > tt_tower_obbs[k].quality
         THEN tt_tower_obbs' = Append(RemoveAt(tt_tower_obbs, k), TTTowerInfo(TTCandidate))
         ELSE tt_tower_obbs' = tt_tower_obbs
C26_QualityReplaces == [][QualityStep]_vars

\* C27: the list remove_duplicates returns holds no two towers whose
\* centers are closer than distance_threshold.
C27_ResultSeparated ==
  rd_pc = "returned" =>
    \A a, b \in DOMAIN rd_result :
      a < b => ~Within(rd_result[a].center, rd_result[b].center, distance_threshold)

\* C29: at most one tower-extraction thread of the GUI runs at any time.
C29_OneExtractionThread == Cardinality(Running) <= 1

====
